---- MODULE Spec2Model ----
(***************************************************************************)
(* Model of the Maya modeling publisher: the Collect / Verify / Extract /   *)
(* Implement pipeline of publishing.py (MyPublisher, ModelPublisher) and    *)
(* its driver PublisherWindow.run_publish of publish_UI.py.                 *)
(*                                                                          *)
(* Strings are sequences of one-character strings, so that str.split and    *)
(* the path functions are computed on the characters as Python does.        *)
(* Transform values are integers in units of 0.0001.                        *)
(***************************************************************************)
EXTENDS Integers, Sequences, FiniteSets, TLC

\* ------------------------------------------------------------------ bounds
MaxSel == 2

MaxMeshes == 2

\* ----------------------------------------------------------------- strings
Last(s) == s[Len(s)]

\* str.split(c) for a one-character separator: always at least one piece,
\* empty pieces are kept.
RECURSIVE Split(_, _)
Split(s, c) ==
    IF \A i \in 1..Len(s) : s[i] # c
    THEN <<s>>
    ELSE LET k == CHOOSE i \in 1..Len(s) :
                      s[i] = c /\ \A j \in 1..(i - 1) : s[j] # c
         IN  <<SubSeq(s, 1, k - 1)>> \o Split(SubSeq(s, k + 1, Len(s)), c)

\* c.join(parts)
RECURSIVE Join(_, _)
Join(parts, c) ==
    IF Len(parts) = 0 THEN <<>>
    ELSE IF Len(parts) = 1 THEN parts[1]
    ELSE parts[1] \o <<c>> \o Join(Tail(parts), c)

\* ------------------------------------------------------------------ inputs
geo == <<"g", "e", "o">>

chr == <<"c", "h", "r">>

ta == <<"a">>

tb == <<"b">>

\* Object names as cmds.ls(sl=True) returns them: a leaf name, or a partial
\* path "parent|leaf" when the leaf name is not unique.
ObjectNames ==
    { Join(<<geo, ta, tb>>, "_"),
      Join(<<geo, ta, tb, ta>>, "_"),
      Join(<<Join(<<chr, ta>>, "_"), Join(<<geo, ta, tb>>, "_")>>, "|"),
      Join(<<geo, ta>>, "_"),
      Join(<<geo, ta, tb, ta, tb>>, "_"),
      Join(<<chr, ta, tb>>, "_"),
      Join(<<chr, ta>>, "_"),
      Join(<<Join(<<geo, ta, tb>>, "_"), chr>>, "|") }

\* The sequences of at most n pairwise distinct elements of S.
DistinctSeqs(S, n) ==
    UNION { { q \in [1..k -> S] :
                \A i, j \in 1..k : i # j => q[i] # q[j] } : k \in 0..n }

Selections == DistinctSeqs(ObjectNames, MaxSel)

Prefixes == {geo, chr}

\* Scene file names (base names).
ext == <<"m", "a">>

FileNames ==
    { Join(<<Join(<<ta, tb, <<"c">>>>, "_"), ext>>, "."),
      Join(<<Join(<<ta, tb, <<"c">>, <<"v", "2">>>>, "_"), ext>>, "."),
      Join(<<Join(<<ta, tb>>, "_"), ext>>, "."),
      Join(<<Join(<<ta, tb, <<"c">>, ta, tb>>, "_"), ext>>, "."),
      Join(<<Join(<<ta, tb>>, "_"), Join(<<<<"v", "2">>, tb>>, "_"), ext>>, ".") }

ProjectDir == <<<<>>, <<"p">>, <<"s">>, <<"q">>>>

\* The scene open in Maya: exn is cmds.file(q, exn), sn is cmds.file(q, sn).
\* A saved scene has both equal; an unsaved one has exn ".../untitled" and
\* sn "".
Scenes ==
    { [exn |-> Join(Append(ProjectDir, f), "/"),
       sn  |-> Join(Append(ProjectDir, f), "/")] : f \in FileNames }
    \cup
    { [exn |-> Join(<<<<>>, f>>, "/"), sn |-> Join(<<<<>>, f>>, "/")] :
          f \in {Join(<<Join(<<ta, tb, <<"c">>>>, "_"), ext>>, ".")} }
    \cup
    { [exn |-> Join(Append(ProjectDir,
                           <<"u", "n", "t", "i", "t", "l", "e", "d">>), "/"),
       sn  |-> <<>>] }

Formats == {"OBJexport", "FBX export"}

\* ------------------------------------------------------------------- state
VARIABLES
    entry,           \* "run_publish", "main" or "script": who drives the run
    cls,             \* class of the publisher object
    pc,              \* position of the run
    maya,            \* the scene open in Maya: [exn, sn]
    fmt,             \* export format handed to extract_assets
    arg_prefix,      \* the prefix argument given to __init__
    sel, prefix, scene, obj_path, scene_name, version, user,  \* self.*
    indicator, log,  \* the four step indicators and the log window
    i, wrong_names, meshes, lamina_objs, bad_transforms, bad_obj, xform,
    history, uv_counts, lamina,
    calls,           \* stage methods invoked in this run, in order
    checks,          \* checks of the Verify stage started in this run
    reads,           \* queries made to Maya by the running check
    exc, propagated, \* exception that ended the run; did it reach the caller
    dirs, exports, sidecars, posts   \* file system and webhook

ctlVars == <<entry, cls, pc, maya, fmt, arg_prefix>>

pubVars == <<sel, prefix, scene, obj_path, scene_name, version, user>>

uiVars == <<indicator, log>>

locVars == <<i, wrong_names, meshes, lamina_objs, bad_transforms, bad_obj,
             xform, history, uv_counts, lamina>>

ghostVars == <<calls, checks, reads>>

excVars == <<exc, propagated>>

worldVars == <<dirs, exports, sidecars, posts>>

vars == <<ctlVars, pubVars, uiVars, locVars, ghostVars, excVars, worldVars>>

\* An attribute or local that has not been assigned.
Unset == <<"<unset>">>

Steps == <<"step_c", "step_v", "step_e", "step_i">>

StepSet == {Steps[k] : k \in 1..4}

\* PublishStepWidget.set_status: the colour the indicator is painted with.
colors(status) ==
    CASE status = "idle"    -> "#555555"
      [] status = "running" -> "#FFD700"
      [] status = "success" -> "#4CAF50"
      [] status = "fail"    -> "#F44336"
      [] OTHER              -> "#555555"

set_status(ind, step, status) == [ind EXCEPT ![step] = colors(status)]

\* PublisherWindow.reset_ui
reset_ui == [s \in StepSet |-> colors("idle")]

NoExc == [type |-> "none", kind |-> "none", data |-> <<>>]

PublishError(kind, data) ==
    [type |-> "PublishError", kind |-> kind, data |-> data]

\* (variant: the exception is turned into a validation failure)
SystemExc_AsPublishError(kind) ==
    [type |-> "PublishError", kind |-> kind, data |-> <<>>]

SystemExc(kind) == [type |-> "Exception", kind |-> kind, data |-> <<>>]

NoXform == [obj |-> 0, t |-> <<>>, r |-> <<>>, s |-> <<>>]

ClearLocals ==
    /\ i' = 0
    /\ wrong_names' = <<>>
    /\ meshes' = <<>>
    /\ lamina_objs' = <<>>
    /\ bad_transforms' = <<>>
    /\ bad_obj' = <<>>
    /\ xform' = NoXform
    /\ history' = Unset
    /\ uv_counts' = -1
    /\ lamina' = Unset

\* The except clauses: of run_publish (lines 175-190), which end the run
\* without re-raising, and of main (lines 58-66), which re-raise. A script
\* calling the stage methods itself has no handler.
\* (variant: every step that is not green turns red)
HandlerIndicator_AllRed(ind, e) ==
    IF e.type = "PublishError"
    THEN [s \in StepSet |->
             IF ind[s] # "#4CAF50" THEN colors("fail") ELSE ind[s]]
    ELSE ind

HandlerIndicator(ind, e) ==
    IF e.type = "PublishError"
    THEN [s \in StepSet |->
             IF ind[s] = "#FFD700" THEN colors("fail") ELSE ind[s]]
    ELSE ind

HandlerLog(lg, e) ==
    IF e.type = "PublishError"
    THEN Append(lg, "PUBLISH ERROR")
    ELSE lg \o <<"CRITICAL SYSTEM ERROR", "traceback">>

\* (variant: a missing-UV error is recorded but the pipeline goes on)
Raise_UvWarning(e) ==
    /\ exc' = e
    /\ pc' = IF e.kind = "UVs" THEN "extract" ELSE "done"
    /\ ClearLocals
    /\ IF entry = "run_publish"
       THEN /\ indicator' = HandlerIndicator(indicator, e)
            /\ log' = HandlerLog(log, e)
            /\ propagated' = FALSE
       ELSE /\ UNCHANGED uiVars
            /\ propagated' = TRUE

Raise(e) ==
    /\ exc' = e
    /\ pc' = "done"
    /\ ClearLocals
    /\ IF entry = "run_publish"
       THEN /\ indicator' = HandlerIndicator(indicator, e)
            /\ log' = HandlerLog(log, e)
            /\ propagated' = FALSE
       ELSE /\ UNCHANGED uiVars
            /\ propagated' = TRUE

\* (variant: the step is not turned green)
StageReturns_NoSuccess(step, line, next) ==
    IF entry = "run_publish"
    THEN /\ indicator' = indicator
         /\ log' = Append(log, line)
         /\ pc' = "begin_" \o next
    ELSE /\ UNCHANGED uiVars
         /\ pc' = next

\* A stage method returned: under run_publish the step turns green and a
\* line is logged; the next stage is begun by its own action.
StageReturns(step, line, next) ==
    IF entry = "run_publish"
    THEN /\ indicator' = set_status(indicator, step, "success")
         /\ log' = Append(log, line)
         /\ pc' = "begin_" \o next
    ELSE /\ UNCHANGED uiVars
         /\ pc' = next

Init ==
    /\ entry = "none"
    /\ cls = "none"
    /\ pc = "idle"
    /\ maya = CHOOSE m \in Scenes : m.sn = <<>>
    /\ fmt = "none"
    /\ arg_prefix = geo
    /\ sel = <<>>
    /\ prefix = geo
    /\ scene = Unset
    /\ obj_path = <<>>
    /\ scene_name = Unset
    /\ version = Unset
    /\ user = Unset
    /\ indicator = reset_ui
    /\ log = <<>>
    /\ i = 0
    /\ wrong_names = <<>>
    /\ meshes = <<>>
    /\ lamina_objs = <<>>
    /\ bad_transforms = <<>>
    /\ bad_obj = <<>>
    /\ xform = NoXform
    /\ history = Unset
    /\ uv_counts = -1
    /\ lamina = Unset
    /\ calls = <<>>
    /\ checks = <<>>
    /\ reads = <<>>
    /\ exc = NoExc
    /\ propagated = FALSE
    /\ dirs = {}
    /\ exports = {}
    /\ sidecars = {}
    /\ posts = <<>>

\* The state of a freshly constructed publisher (__init__) and of a run
\* that has not done anything yet.
NewRun(e, c, selection, p, scn, f) ==
    /\ pc = "idle"
    /\ entry' = e
    /\ cls' = c
    /\ maya' = scn
    /\ fmt' = f
    /\ arg_prefix' = p
    /\ sel' = selection
    /\ prefix' = p
    /\ scene' = Unset
    /\ obj_path' = <<>>
    /\ scene_name' = Unset
    /\ version' = Unset
    /\ user' = Unset
    /\ ClearLocals
    /\ calls' = <<>>
    /\ checks' = <<>>
    /\ reads' = <<>>
    /\ exc' = NoExc
    /\ propagated' = FALSE
    /\ UNCHANGED worldVars

\* PublisherWindow.run_publish up to the first stage call: reset the UI,
\* read the selection, build a ModelPublisher (no prefix argument, so the
\* default "geo"), read the format, turn the Collect step yellow.
run_publish ==
    /\ pc = "idle"
    /\ \E selection \in Selections, scn \in Scenes, f \in Formats :
          /\ NewRun("run_publish", "ModelPublisher", selection, geo, scn, f)
          /\ indicator' = set_status(reset_ui, "step_c", "running")
          /\ log' = <<>>
          /\ pc' = "collect"

\* MyPublisher.main called on a publisher of either class.
main ==
    /\ pc = "idle"
    /\ \E c \in {"MyPublisher", "ModelPublisher"}, selection \in Selections,
          p \in Prefixes, scn \in Scenes :
          /\ NewRun("main", c, selection, p, scn, "none")
          /\ UNCHANGED uiVars
          /\ pc' = "collect"

\* A script that builds ModelPublisher(selection, api, prefix) and calls its
\* stage methods in the order run_publish does.
script ==
    /\ pc = "idle"
    /\ \E selection \in Selections, p \in Prefixes, scn \in Scenes :
          /\ NewRun("script", "ModelPublisher", selection, p, scn, "OBJexport")
          /\ UNCHANGED uiVars
          /\ pc' = "collect"

\* (variant: the scene name is read before the selection is tested)
collect_assets_SceneFirst ==
    /\ pc = "collect"
    /\ calls' = Append(calls, "collect")
    /\ UNCHANGED <<entry, cls, maya, fmt, arg_prefix>>
    /\ UNCHANGED <<sel, prefix, obj_path, scene_name, version, user>>
    /\ UNCHANGED <<checks, reads>>
    /\ UNCHANGED worldVars
    /\ scene' = Last(Split(maya.exn, "/"))
    /\ IF sel = <<>>
       THEN Raise(PublishError("NoSelection", <<>>))
       ELSE /\ StageReturns("step_c", "Collect successful", "verify")
            /\ UNCHANGED locVars
            /\ UNCHANGED excVars

\* MyPublisher.collect_assets
collect_assets ==
    /\ pc = "collect"
    /\ calls' = Append(calls, "collect")
    /\ UNCHANGED <<entry, cls, maya, fmt, arg_prefix>>
    /\ UNCHANGED <<sel, prefix, obj_path, scene_name, version, user>>
    /\ UNCHANGED <<checks, reads>>
    /\ UNCHANGED worldVars
    /\ IF sel = <<>>
       THEN /\ Raise(PublishError("NoSelection", <<>>))
            /\ UNCHANGED scene
       ELSE /\ scene' = Last(Split(maya.exn, "/"))
            /\ StageReturns("step_c", "Collect successful", "verify")
            /\ UNCHANGED locVars
            /\ UNCHANGED excVars

\* run_publish turning the next step yellow before it calls the stage.
BeginStage(name, step) ==
    /\ pc = "begin_" \o name
    /\ indicator' = set_status(indicator, step, "running")
    /\ pc' = name
    /\ UNCHANGED <<entry, cls, maya, fmt, arg_prefix, log>>
    /\ UNCHANGED <<pubVars, locVars, ghostVars, excVars, worldVars>>

begin_verify == BeginStage("verify", "step_v")

begin_extract == BeginStage("extract", "step_e")

begin_implement == BeginStage("implement", "step_i")

\* ------------------------------------------------------------ Verify stage
\* length = [3, 4]
length == {3, 4}

\* (variant: the prefix test is an elif of the token-count test)
NameOffences_Elif(obj, p) ==
    LET node_name == Last(Split(obj, "|"))
        parts     == Split(node_name, "_")
    IN  IF Len(parts) \notin length THEN <<obj>>
        ELSE IF parts[1] # p THEN <<obj>> ELSE <<>>

\* The body of the naming loop (lines 115-124): what one object adds to
\* wrong_names under prefix p.
NameOffences(obj, p) ==
    LET node_name == Last(Split(obj, "|"))
        parts     == Split(node_name, "_")
    IN  (IF Len(parts) \notin length THEN <<obj>> ELSE <<>>)
        \o (IF parts[1] # p THEN <<obj>> ELSE <<>>)

\* (variant: only an upper limit on the token count)
SceneNameOk_AtMost4(scn) == Len(Split(scn, "_")) <= 4

\* The scene-name test of line 108.
SceneNameOk(scn) == Len(Split(scn, "_")) \in length

\* The prefix the naming check runs with: ModelPublisher.verify_assets
\* stores "geo" in self.prefix (line 218) and passes it on; main passes
\* self.prefix to MyPublisher.verify_assets.
VerifyPrefix(c, p) == IF c = "ModelPublisher" THEN geo ELSE p

keepCtl == UNCHANGED <<entry, cls, maya, fmt, arg_prefix>>

\* The call of verify_assets and the start of the naming check. main calls
\* self.verify_assets(self.prefix); the override of ModelPublisher takes no
\* argument, so on a ModelPublisher that call is a TypeError.
verify_assets ==
    /\ pc = "verify"
    /\ keepCtl
    /\ UNCHANGED <<sel, scene, obj_path, scene_name, version, user>>
    /\ UNCHANGED <<reads, worldVars>>
    /\ IF entry = "main" /\ cls = "ModelPublisher"
       THEN /\ Raise(SystemExc("TypeError"))
            /\ UNCHANGED <<prefix, calls, checks>>
       ELSE /\ calls' = Append(calls, "verify")
            /\ checks' = Append(checks, "naming")
            /\ prefix' = VerifyPrefix(cls, prefix)
            /\ IF ~SceneNameOk(scene)
               THEN Raise(PublishError("SceneNaming", <<scene>>))
               ELSE /\ pc' = "naming"
                    /\ i' = 1
                    /\ UNCHANGED <<wrong_names, meshes, lamina_objs,
                                   bad_transforms, bad_obj, xform, history,
                                   uv_counts, lamina>>
                    /\ UNCHANGED <<uiVars, excVars>>

\* One iteration of the naming loop.
naming_step ==
    /\ pc = "naming"
    /\ i <= Len(sel)
    /\ wrong_names' = wrong_names \o NameOffences(sel[i], prefix)
    /\ reads' = Append(reads, <<"name", i>>)
    /\ i' = i + 1
    /\ keepCtl
    /\ UNCHANGED <<pc, pubVars, uiVars, calls, checks, excVars, worldVars>>
    /\ UNCHANGED <<meshes, lamina_objs, bad_transforms, bad_obj, xform,
                   history, uv_counts, lamina>>

\* After the naming loop: raise with the list, or go on. For a ModelPublisher
\* the geometry checks follow; for the base class the stage is over.
naming_end ==
    /\ pc = "naming"
    /\ i > Len(sel)
    /\ keepCtl
    /\ UNCHANGED <<pubVars, ghostVars, worldVars>>
    /\ IF wrong_names # <<>>
       THEN Raise(PublishError("Naming", wrong_names))
       ELSE /\ ClearLocals
            /\ UNCHANGED excVars
            /\ IF cls = "ModelPublisher"
               THEN /\ pc' = "topology"
                    /\ UNCHANGED uiVars
               ELSE StageReturns("step_v", "Verification passed", "extract")

\* Python's None, and the truth value of a list-or-None result.
NoneVal == <<"<None>">>

\* (variant: only None counts as empty)
Truthy_NotNone(v) == v # NoneVal

Truthy(v) == v # NoneVal /\ v # <<>>

\* What Maya may answer (the scene graph is outside the program).
MeshLists == { [k \in 1..n |-> k] : n \in 0..MaxMeshes }

NgonResults == {<<>>, <<"f[0]">>}

LaminaResults == {NoneVal, <<>>, <<"f[1]">>}

HistoryResults == {NoneVal, <<>>, <<"polyCube1">>}

UvResults == {0, 5}

\* 1.0 and the tolerance 0.001, in units of 0.0001.
One == 10000

Tol == 10

Abs(x) == IF x < 0 THEN -x ELSE x

TranslateVals ==
    {<<0, 0, 0>>, <<0, 0, Tol>>,
     <<0, 0, Tol + 1>>, <<0 - Tol - 1, 0, 0>>, <<0, Tol + 1, 0>>}

RotateVals == {<<0, 0, 0>>, <<Tol, 0, 0 - Tol>>, <<0, 0 - Tol - 1, 0>>}

ScaleVals ==
    {<<One, One, One>>, <<One + Tol, One, One - Tol>>,
     <<One, One + Tol + 1, One>>, <<One - Tol - 1, One, One>>}

\* (variant: the tolerance itself is rejected)
TranslateOff_Strict(t) ==
    Abs(t[1]) >= Tol \/ Abs(t[2]) >= Tol \/ Abs(t[3]) >= Tol

\* The three tests of check_transforms (lines 376, 382, 388-392).
TranslateOff(t) == Abs(t[1]) > Tol \/ Abs(t[2]) > Tol \/ Abs(t[3]) > Tol

RotateOff(r) == Abs(r[1]) > Tol \/ Abs(r[2]) > Tol \/ Abs(r[3]) > Tol

ScaleOff(s) ==
    Abs(s[1] - One) > Tol \/ Abs(s[2] - One) > Tol \/ Abs(s[3] - One) > Tol

\* f"{obj} ({channel})"
FlagText(obj, channel) == obj \o <<" (", channel, ")">>

keepPub == UNCHANGED pubVars

\* check_topology up to the n-gon test (lines 327-345).
check_topology ==
    /\ pc = "topology"
    /\ keepCtl /\ keepPub
    /\ UNCHANGED <<calls, worldVars>>
    /\ checks' = Append(checks, "topology")
    /\ \E ms \in MeshLists, ngons \in NgonResults :
          /\ reads' = Append(reads, <<"ngons", 0, ngons>>)
          /\ IF Truthy(ngons)
             THEN Raise(PublishError("Ngons", ngons))
             ELSE /\ meshes' = ms
                  /\ lamina_objs' = <<>>
                  /\ i' = 1
                  /\ pc' = "lamina"
                  /\ UNCHANGED <<wrong_names, bad_transforms, bad_obj,
                                 xform, history, uv_counts, lamina>>
                  /\ UNCHANGED <<uiVars, excVars>>

\* One iteration of the lamina loop (lines 351-354).
lamina_step ==
    /\ pc = "lamina"
    /\ i <= Len(meshes)
    /\ keepCtl /\ keepPub
    /\ \E lam \in LaminaResults :
          /\ lamina' = lam
          /\ lamina_objs' = IF Truthy(lam)
                            THEN Append(lamina_objs, meshes[i])
                            ELSE lamina_objs
    /\ reads' = Append(reads, <<"lamina", i>>)
    /\ i' = i + 1
    /\ UNCHANGED <<pc, uiVars, calls, checks, excVars, worldVars>>
    /\ UNCHANGED <<wrong_names, meshes, bad_transforms, bad_obj, xform,
                   history, uv_counts>>

\* (variant: check_history is called before check_transforms)
lamina_end_HistoryFirst ==
    /\ pc = "lamina"
    /\ i > Len(meshes)
    /\ keepCtl /\ keepPub
    /\ UNCHANGED <<ghostVars, worldVars>>
    /\ IF lamina_objs # <<>>
       THEN Raise(PublishError("Lamina", lamina_objs))
       ELSE /\ ClearLocals
            /\ pc' = "history"
            /\ UNCHANGED <<uiVars, excVars>>

\* The end of check_topology (lines 357-358).
lamina_end ==
    /\ pc = "lamina"
    /\ i > Len(meshes)
    /\ keepCtl /\ keepPub
    /\ UNCHANGED <<ghostVars, worldVars>>
    /\ IF lamina_objs # <<>>
       THEN Raise(PublishError("Lamina", lamina_objs))
       ELSE /\ ClearLocals
            /\ pc' = "transforms"
            /\ UNCHANGED <<uiVars, excVars>>

\* check_transforms is entered.
check_transforms ==
    /\ pc = "transforms"
    /\ keepCtl /\ keepPub
    /\ checks' = Append(checks, "transforms")
    /\ bad_transforms' = <<>>
    /\ i' = 1
    /\ pc' = "transforms_loop"
    /\ UNCHANGED <<calls, reads, uiVars, excVars, worldVars>>
    /\ UNCHANGED <<wrong_names, meshes, lamina_objs, bad_obj, xform, history,
                   uv_counts, lamina>>

\* (variant: the tests run in the order scale, rotate, translate)
FirstOff_ScaleFirst(t, r, s) ==
    IF ScaleOff(s) THEN "Scale"
    ELSE IF RotateOff(r) THEN "Rotate"
    ELSE IF TranslateOff(t) THEN "Translate"
    ELSE "none"

\* The channel check_transforms flags for an object with these values: the
\* tests run in the order translate, rotate, scale and the first that fails
\* ends the iteration (continue).
FirstOff(t, r, s) ==
    IF TranslateOff(t) THEN "Translate"
    ELSE IF RotateOff(r) THEN "Rotate"
    ELSE IF ScaleOff(s) THEN "Scale"
    ELSE "none"

\* How many getAttr calls the iteration made before it ended.
ChannelsRead(channel) ==
    CASE channel = "Translate" -> 1
      [] channel = "Rotate"    -> 2
      [] OTHER                 -> 3

\* One iteration of the loop of check_transforms (lines 372-394) on an
\* object whose channels hold t, r, s. xform keeps what the iteration read.
\* getAttr may also fail (the node has no such attribute).
transforms_step ==
    /\ pc = "transforms_loop"
    /\ i <= Len(sel)
    /\ keepCtl /\ keepPub
    /\ UNCHANGED <<calls, checks, worldVars>>
    /\ \/ /\ Raise(SystemExc("getAttr"))
          /\ reads' = Append(reads, <<"translate", i>>)
       \/ /\ UNCHANGED <<pc, uiVars, excVars>>
          /\ UNCHANGED <<wrong_names, meshes, lamina_objs, bad_obj, history,
                         uv_counts, lamina>>
          /\ i' = i + 1
          /\ \E t \in TranslateVals, r \in RotateVals, s \in ScaleVals :
                LET channel == FirstOff(t, r, s)
                    n       == ChannelsRead(channel)
                IN  /\ bad_transforms' =
                           IF channel # "none"
                           THEN Append(bad_transforms, FlagText(sel[i], channel))
                           ELSE bad_transforms
                    /\ xform' = [obj |-> i, t |-> t,
                                 r |-> IF n >= 2 THEN r ELSE <<>>,
                                 s |-> IF n >= 3 THEN s ELSE <<>>]
                    /\ reads' = reads \o
                           SubSeq(<<<<"translate", i>>, <<"rotate", i>>,
                                    <<"scale", i>>>>, 1, n)

\* The end of check_transforms (lines 397-398).
transforms_end ==
    /\ pc = "transforms_loop"
    /\ i > Len(sel)
    /\ keepCtl /\ keepPub
    /\ UNCHANGED <<ghostVars, worldVars>>
    /\ IF bad_transforms # <<>>
       THEN Raise(PublishError("Transforms", bad_transforms))
       ELSE /\ ClearLocals
            /\ pc' = "history"
            /\ UNCHANGED <<uiVars, excVars>>

\* check_history is entered.
check_history ==
    /\ pc = "history"
    /\ keepCtl /\ keepPub
    /\ checks' = Append(checks, "history")
    /\ bad_obj' = <<>>
    /\ i' = 1
    /\ pc' = "history_loop"
    /\ UNCHANGED <<calls, reads, uiVars, excVars, worldVars>>
    /\ UNCHANGED <<wrong_names, meshes, lamina_objs, bad_transforms, xform,
                   history, uv_counts, lamina>>

\* The test of line 409.
HasHistory(h) == h # NoneVal

\* One iteration of the loop of check_history (lines 407-410).
history_step ==
    /\ pc = "history_loop"
    /\ i <= Len(sel)
    /\ keepCtl /\ keepPub
    /\ \E h \in HistoryResults :
          /\ history' = h
          /\ bad_obj' = IF HasHistory(h) THEN Append(bad_obj, sel[i])
                        ELSE bad_obj
    /\ reads' = Append(reads, <<"history", i>>)
    /\ i' = i + 1
    /\ UNCHANGED <<pc, calls, checks, uiVars, excVars, worldVars>>
    /\ UNCHANGED <<wrong_names, meshes, lamina_objs, bad_transforms, xform,
                   uv_counts, lamina>>

\* The end of check_history (lines 411-412).
history_end ==
    /\ pc = "history_loop"
    /\ i > Len(sel)
    /\ keepCtl /\ keepPub
    /\ UNCHANGED <<ghostVars, worldVars>>
    /\ IF bad_obj # <<>>
       THEN Raise(PublishError("History", bad_obj))
       ELSE /\ ClearLocals
            /\ pc' = "uvs"
            /\ UNCHANGED <<uiVars, excVars>>

\* check_uvs is entered.
check_uvs ==
    /\ pc = "uvs"
    /\ keepCtl /\ keepPub
    /\ checks' = Append(checks, "uvs")
    /\ i' = 1
    /\ pc' = "uvs_loop"
    /\ UNCHANGED <<calls, reads, uiVars, excVars, worldVars>>
    /\ UNCHANGED <<wrong_names, meshes, lamina_objs, bad_transforms, bad_obj,
                   xform, history, uv_counts, lamina>>

\* (variant: the test is uv_counts < 0, which no count satisfies)
NoUvs_Negative(n) == n < 0

\* The test of line 428.
NoUvs(n) == n = 0

\* One iteration of the loop of check_uvs (lines 424-429); the count that
\* polyEvaluate answered is kept with the query.
uvs_step ==
    /\ pc = "uvs_loop"
    /\ i <= Len(sel)
    /\ keepCtl /\ keepPub
    /\ UNCHANGED <<calls, checks, worldVars>>
    /\ \E n \in UvResults :
          /\ reads' = Append(reads, <<"uv", i, n>>)
          /\ IF NoUvs(n)
             THEN Raise(PublishError("UVs", <<sel[i]>>))
             ELSE /\ uv_counts' = n
                  /\ i' = i + 1
                  /\ UNCHANGED <<pc, uiVars, excVars>>
                  /\ UNCHANGED <<wrong_names, meshes, lamina_objs,
                                 bad_transforms, bad_obj, xform, history,
                                 lamina>>

\* check_uvs and with it ModelPublisher.verify_assets return.
uvs_end ==
    /\ pc = "uvs_loop"
    /\ i > Len(sel)
    /\ keepCtl /\ keepPub
    /\ UNCHANGED <<ghostVars, excVars, worldVars>>
    /\ ClearLocals
    /\ StageReturns("step_v", "Verification passed", "extract")

\* ----------------------------------------------------------- Extract stage
\* The components of a path as pathlib sees them: empty and "." pieces drop.
PathParts(path) ==
    SelectSeq(Split(path, "/"), LAMBDA c : c # <<>> /\ c # <<".">>)

IsAbsolute(path) == Len(path) > 0 /\ path[1] = "/"

\* str(pathlib.Path(path).parents[1]); defined when PathParts has two
\* components or more (otherwise parents[1] raises IndexError).
HasParents1(path) == Len(PathParts(path)) >= 2

\* (variant: parents[2], one directory higher)
Parents1_TwoUp(path) ==
    LET comps == PathParts(path)
        kept  == SubSeq(comps, 1, Len(comps) - 3)
    IN  IF IsAbsolute(path) THEN <<"/">> \o Join(kept, "/")
        ELSE IF kept = <<>> THEN <<".">>
        ELSE Join(kept, "/")

Parents1(path) ==
    LET comps == PathParts(path)
        kept  == SubSeq(comps, 1, Len(comps) - 2)
    IN  IF IsAbsolute(path) THEN <<"/">> \o Join(kept, "/")
        ELSE IF kept = <<>> THEN <<".">>
        ELSE Join(kept, "/")

\* os.path.basename
Basename(path) == Last(Split(path, "/"))

\* os.path.join(a, b) for a relative b
PathJoin(a, b) ==
    IF a = <<>> \/ Last(a) = "/" THEN a \o b ELSE a \o <<"/">> \o b

\* The name and version derived from the scene path (lines 258-260).
SceneName(path) == Split(Basename(path), ".")[1]

Version(name) == Last(Split(name, "_"))

\* asset_folder and asset_dir (lines 264-265)
AssetDir(path) ==
    PathJoin(Parents1(path),
             <<"a", "s", "s", "e", "t", "s", "/">> \o SceneName(path)
                 \o <<"/", "m", "o", "d", "e", "l", "i", "n", "g", "/">>)

\* self.obj_path (line 270)
ObjPath(path) == PathJoin(AssetDir(path), SceneName(path))

\* ModelPublisher.extract_assets; the base class method does nothing.
\* os.makedirs and the export (cmds.file) may fail.
extract_assets ==
    /\ pc = "extract"
    /\ keepCtl
    /\ calls' = Append(calls, "extract")
    /\ UNCHANGED <<sel, prefix, scene, user, checks, reads, sidecars, posts>>
    /\ IF cls = "MyPublisher"
       THEN /\ StageReturns("step_e", "Exported", "implement")
            /\ UNCHANGED <<obj_path, scene_name, version, dirs, exports>>
            /\ UNCHANGED <<locVars, excVars>>
       ELSE IF ~HasParents1(maya.sn)
       THEN /\ Raise(SystemExc("IndexError"))
            /\ UNCHANGED <<obj_path, scene_name, version, dirs, exports>>
       ELSE /\ scene_name' = SceneName(maya.sn)
            /\ version' = Version(SceneName(maya.sn))
            /\ \/ /\ Raise(SystemExc("makedirs"))
                  /\ UNCHANGED <<obj_path, dirs, exports>>
               \/ /\ dirs' = dirs \cup {AssetDir(maya.sn)}
                  /\ obj_path' = ObjPath(maya.sn)
                  /\ \/ /\ Raise(SystemExc("export"))
                        /\ UNCHANGED exports
                     \/ /\ exports' = exports \cup {<<ObjPath(maya.sn), fmt>>}
                        /\ StageReturns("step_e", "Exported", "implement")
                        /\ UNCHANGED <<locVars, excVars>>

\* --------------------------------------------------------- Implement stage
UserName == <<"artist">>

Ids == {<<"1A2B3C4D">>, <<"0F0F0F0F">>}

Dates == {<<"20260101-120000">>}

\* The message of discord_notification (lines 170-180).
Message(asset_name, ver, department, usr) ==
    [username |-> "Pipeline Bot",
     title |-> "Asset Published Successfully.",
     asset |-> asset_name, version |-> ver, department |-> department,
     user |-> usr, color |-> 5763719]

\* str(Path(p).with_suffix("")): the last component loses its suffix, the
\* part from its last "." on, when that "." is not its first character.
WithoutSuffix(p) ==
    LET name == Basename(p)
        dots == {k \in 2..Len(name) : name[k] = "."}
    IN  IF dots = {} \/ name = <<>> THEN p
        ELSE LET d == CHOOSE k \in dots : \A m \in dots : m <= k
             IN  SubSeq(p, 1, Len(p) - Len(name) + d - 1)

\* db_path of csv_publisher (lines 195-196)
DbPath(p) == WithoutSuffix(p) \o <<"_metadata.json">>

\* asset_data (lines 303-311)
AssetData(id, date, description) ==
    [id |-> id, date |-> date, name |-> scene_name, version |-> version,
     path |-> obj_path, user |-> user, description |-> description]

\* The run is over without an exception.
RunReturns ==
    /\ pc' = "done"
    /\ UNCHANGED excVars
    /\ IF entry = "run_publish"
       THEN /\ indicator' = set_status(indicator, "step_i", "success")
            /\ log' = Append(log, "Discord notification sent")
       ELSE UNCHANGED uiVars

\* (variant: the failure of the post is not caught)
implement_assets_Uncaught ==
    /\ pc = "implement"
    /\ keepCtl
    /\ calls' = Append(calls, "implement")
    /\ UNCHANGED <<sel, prefix, scene, obj_path, scene_name, version>>
    /\ UNCHANGED <<checks, locVars, dirs, exports, sidecars>>
    /\ IF cls = "MyPublisher"
       THEN /\ RunReturns
            /\ UNCHANGED <<user, posts, reads>>
       ELSE /\ user' = UserName
            /\ \/ /\ posts' = Append(posts, Message(scene_name, version,
                                                     "modeling", UserName))
                  /\ reads' = Append(reads, <<"post", 0, "delivered">>)
                  /\ pc' = "csv"
                  /\ UNCHANGED <<uiVars, excVars>>
               \/ /\ UNCHANGED posts
                  /\ reads' = Append(reads, <<"post", 0, "failed">>)
                  /\ Raise(SystemExc("RequestException"))

\* ModelPublisher.implement_assets up to the notification (lines 289-296):
\* discord_notification reads the user name and posts the message; a
\* RequestException (no URL, no connection, an error status) is caught
\* there. The outcome of the post is kept with the queries. The base class
\* method does nothing.
implement_assets ==
    /\ pc = "implement"
    /\ keepCtl
    /\ calls' = Append(calls, "implement")
    /\ UNCHANGED <<sel, prefix, scene, obj_path, scene_name, version>>
    /\ UNCHANGED <<checks, locVars, dirs, exports, sidecars>>
    /\ IF cls = "MyPublisher"
       THEN /\ RunReturns
            /\ UNCHANGED <<user, posts, reads>>
       ELSE /\ user' = UserName
            /\ pc' = "csv"
            /\ UNCHANGED <<uiVars, excVars>>
            /\ \/ /\ posts' = Append(posts, Message(scene_name, version,
                                                     "modeling", UserName))
                  /\ reads' = Append(reads, <<"post", 0, "delivered">>)
               \/ /\ UNCHANGED posts
                  /\ reads' = Append(reads, <<"post", 0, "failed">>)

\* (variant: the file is opened for appending, what was in it stays)
WriteFile_Append(files, path, data) ==
    files \cup {[path |-> path, data |-> data]}

\* open(db_path, "w") and json.dump (lines 198-199): the file at path is
\* created or truncated and then holds data alone.
WriteFile(files, path, data) ==
    {f \in files : f.path # path} \cup {[path |-> path, data |-> data]}

\* (variant: a failed sidecar write removes the export again)
csv_publisher_Rollback ==
    /\ pc = "csv"
    /\ keepCtl /\ keepPub
    /\ UNCHANGED <<ghostVars, dirs, posts>>
    /\ \/ /\ Raise(SystemExc("open"))
          /\ exports' = {}
          /\ UNCHANGED sidecars
       \/ /\ \E id \in Ids, date \in Dates :
                sidecars' = WriteFile(sidecars, DbPath(obj_path),
                                      AssetData(id, date, <<>>))
          /\ RunReturns
          /\ UNCHANGED <<locVars, exports>>

\* The rest of implement_assets (lines 298-314): build the record and have
\* csv_publisher write it; opening the file may fail.
csv_publisher ==
    /\ pc = "csv"
    /\ keepCtl /\ keepPub
    /\ UNCHANGED <<ghostVars, dirs, exports, posts>>
    /\ \/ /\ Raise(SystemExc("open"))
          /\ UNCHANGED sidecars
       \/ /\ \E id \in Ids, date \in Dates :
                sidecars' = WriteFile(sidecars, DbPath(obj_path),
                                      AssetData(id, date, <<>>))
          /\ RunReturns
          /\ UNCHANGED locVars

Next ==
    \/ run_publish
    \/ main
    \/ script
    \/ collect_assets
    \/ begin_verify
    \/ verify_assets
    \/ naming_step
    \/ naming_end
    \/ check_topology
    \/ lamina_step
    \/ lamina_end
    \/ check_transforms
    \/ transforms_step
    \/ transforms_end
    \/ check_history
    \/ history_step
    \/ history_end
    \/ check_uvs
    \/ uvs_step
    \/ uvs_end
    \/ begin_extract
    \/ extract_assets
    \/ begin_implement
    \/ implement_assets
    \/ csv_publisher

Spec == Init /\ [][Next]_vars


\* --------------------------------------------- a run after an earlier one
\* The file system and the webhook as an earlier successful publish of the
\* scene scn in format f left them (extract_assets, implement_assets,
\* csv_publisher), the record carrying an earlier date.
PriorDate == <<"20251231-235959">>

PriorId == <<"0F0F0F0F">>

PriorWorld(scn, f) ==
    [dirs     |-> {AssetDir(scn)},
     exports  |-> {<<ObjPath(scn), f>>},
     sidecars |-> {[path |-> DbPath(ObjPath(scn)),
                    data |-> [id |-> PriorId, date |-> PriorDate,
                              name |-> SceneName(scn),
                              version |-> Version(SceneName(scn)),
                              path |-> ObjPath(scn), user |-> UserName,
                              description |-> <<>>]]},
     posts    |-> <<Message(SceneName(scn), Version(SceneName(scn)),
                            "modeling", UserName)>>]

PriorWorlds ==
    { PriorWorld(Join(Append(ProjectDir,
                     Join(<<Join(<<ta, tb, <<"c">>>>, "_"), ext>>, ".")),
                     "/"), "FBX export") }

\* A new publisher is constructed where an earlier publish has been made.
InitRerun ==
    /\ entry = "none"
    /\ cls = "none"
    /\ pc = "idle"
    /\ maya = CHOOSE m \in Scenes : m.sn = <<>>
    /\ fmt = "none"
    /\ arg_prefix = geo
    /\ sel = <<>>
    /\ prefix = geo
    /\ scene = Unset
    /\ obj_path = <<>>
    /\ scene_name = Unset
    /\ version = Unset
    /\ user = Unset
    /\ indicator = reset_ui
    /\ log = <<>>
    /\ i = 0
    /\ wrong_names = <<>>
    /\ meshes = <<>>
    /\ lamina_objs = <<>>
    /\ bad_transforms = <<>>
    /\ bad_obj = <<>>
    /\ xform = NoXform
    /\ history = Unset
    /\ uv_counts = -1
    /\ lamina = Unset
    /\ calls = <<>>
    /\ checks = <<>>
    /\ reads = <<>>
    /\ exc = NoExc
    /\ propagated = FALSE
    /\ \E w \in PriorWorlds :
          /\ dirs = w.dirs
          /\ exports = w.exports
          /\ sidecars = w.sidecars
          /\ posts = w.posts

SpecRerun == InitRerun /\ [][Next]_vars

\* ================================================================== claims
\* The status an indicator colour stands for.
Status(step) ==
    CASE indicator[step] = "#FFD700" -> "running"
      [] indicator[step] = "#4CAF50" -> "success"
      [] indicator[step] = "#F44336" -> "fail"
      [] OTHER                       -> "idle"

StageOrder == <<"collect", "verify", "extract", "implement">>

CheckOrder == <<"naming", "topology", "transforms", "history", "uvs">>

IsPrefix(p, q) == Len(p) <= Len(q) /\ p = SubSeq(q, 1, Len(p))

InSeq(x, q) == \E k \in DOMAIN q : q[k] = x

Occurrences(q, x) == Cardinality({k \in DOMAIN q : q[k] = x})

\* The kinds of exception each stage raises.
VerifyKinds ==
    {"SceneNaming", "Naming", "Ngons", "Lamina", "Transforms", "History",
     "UVs", "getAttr"}

\* C1: the stage methods are invoked in the order Collect, Verify, Extract,
\* Implement, none twice; under run_publish a step is Running or has been
\* left Running only when every earlier step is Success, and a stage
\* method has been invoked only when its step had been set Running.
C1_StagesInOrder ==
    /\ IsPrefix(calls, StageOrder)
    /\ entry = "run_publish" =>
          /\ \A k \in 1..4 :
                Status(Steps[k]) # "idle" =>
                    \A j \in 1..(k - 1) : Status(Steps[j]) = "success"
          /\ \A k \in 1..Len(calls) : Status(Steps[k]) # "idle"
          /\ \A k \in 1..4 :
                Status(Steps[k]) \in {"success", "fail"} => k <= Len(calls)

C1_Witness ==
    /\ entry = "run_publish"
    /\ pc = "implement"
    /\ Status("step_i") = "running"
    /\ calls = SubSeq(StageOrder, 1, 3)

\* C2: when a PublishError ended a run of run_publish, the step of the stage
\* that raised it is Fail, every earlier step is Success and every later
\* step is Idle.
C2_FailSkipsLaterStages ==
    (entry = "run_publish" /\ exc.type = "PublishError") =>
        /\ pc = "done"
        /\ Len(calls) \in 1..4
        /\ Status(Steps[Len(calls)]) = "fail"
        /\ \A j \in 1..(Len(calls) - 1) : Status(Steps[j]) = "success"
        /\ \A j \in (Len(calls) + 1)..4 : Status(Steps[j]) = "idle"

C2_Witness ==
    /\ entry = "run_publish"
    /\ exc.type = "PublishError"
    /\ exc.kind = "History"
    /\ Status("step_c") = "success"
    /\ Status("step_v") = "fail"

\* C3: when a run of run_publish has ended, however it ended, no step is
\* Running: either all four steps are Success or the step of the stage that
\* was executing is Fail.
C3_NoStepLeftRunning ==
    (entry = "run_publish" /\ pc = "done") =>
        /\ \A k \in 1..4 : Status(Steps[k]) # "running"
        /\ \/ \A k \in 1..4 : Status(Steps[k]) = "success"
           \/ Status(Steps[Len(calls)]) = "fail"

\* C4: a run whose Verify stage raised has created no asset directory, no
\* export, no sidecar and no notification, and has not invoked Extract or
\* Implement.
C4_VerifyFailureWritesNothing ==
    (exc.type # "none" /\ exc.kind \in VerifyKinds) =>
        /\ dirs = {}
        /\ exports = {}
        /\ sidecars = {}
        /\ posts = <<>>
        /\ ~InSeq("extract", calls)
        /\ ~InSeq("implement", calls)

C4_Witness ==
    /\ pc = "done"
    /\ exc.kind = "UVs"
    /\ calls = SubSeq(StageOrder, 1, 2)
    /\ dirs = {}

\* --- names, read off the characters
CountOf(str, c) == Cardinality({k \in 1..Len(str) : str[k] = c})

TokenCount(str) == CountOf(str, "_") + 1

\* The part after the last "|".
LeafName(obj) ==
    LET bars == {k \in 1..Len(obj) : obj[k] = "|"}
    IN  IF bars = {} THEN obj
        ELSE SubSeq(obj, (CHOOSE k \in bars : \A m \in bars : m <= k) + 1,
                    Len(obj))

\* The first "_"-token of str is p (p has no "_").
FirstTokenIs(str, p) ==
    /\ Len(str) >= Len(p)
    /\ SubSeq(str, 1, Len(p)) = p
    /\ Len(str) = Len(p) \/ str[Len(p) + 1] = "_"

\* The scene name: the base name of the scene file without its extension.
FileOf(path) ==
    LET slashes == {k \in 1..Len(path) : path[k] = "/"}
    IN  IF slashes = {} THEN path
        ELSE SubSeq(path,
                    (CHOOSE k \in slashes : \A m \in slashes : m <= k) + 1,
                    Len(path))

StemOf(name) ==
    LET dots == {k \in 1..Len(name) : name[k] = "."}
    IN  IF dots = {} THEN name
        ELSE SubSeq(name, 1,
                    (CHOOSE k \in dots : \A m \in dots : m <= k) - 1)

\* C5: when the scene name has neither 3 nor 4 "_"-tokens, Verify ends at
\* once with the naming error that names the scene: no object was examined
\* and no geometry check was started.
C5_BadSceneNameFailsFirst ==
    (InSeq("verify", calls)
        /\ TokenCount(StemOf(FileOf(maya.exn))) \notin {3, 4}) =>
        /\ pc = "done"
        /\ exc.type = "PublishError"
        /\ exc.kind = "SceneNaming"
        /\ exc.data = <<FileOf(maya.exn)>>
        /\ reads = <<>>
        /\ checks = <<"naming">>

C5_Witness ==
    /\ exc.kind = "SceneNaming"
    /\ TokenCount(StemOf(FileOf(maya.exn))) = 5
    /\ Len(sel) = 2
    /\ cls = "ModelPublisher"

\* How often the naming check lists an object under prefix p.
ExpectedCount(obj, p) ==
    (IF TokenCount(LeafName(obj)) \notin {3, 4} THEN 1 ELSE 0)
    + (IF FirstTokenIs(LeafName(obj), p) THEN 0 ELSE 1)

\* q lists objects of the selection, in selection order.
InSelectionOrder(q) ==
    /\ \A a \in DOMAIN q : InSeq(q[a], sel)
    /\ \A a, b \in DOMAIN q :
          a < b => (CHOOSE k \in DOMAIN sel : sel[k] = q[a])
                       <= (CHOOSE k \in DOMAIN sel : sel[k] = q[b])

NamingPassed ==
    /\ InSeq("naming", checks)
    /\ pc # "naming"
    /\ exc.kind \notin {"SceneNaming", "Naming"}

\* C6: the naming loop lists each scanned object once if its leaf name has
\* neither 3 nor 4 tokens and once more if the first token of its leaf name
\* is not the prefix, in selection order; the check raises with that list
\* after the last object iff the list is not empty.
C6_OffenderList ==
    /\ pc = "naming" =>
          /\ InSelectionOrder(wrong_names)
          /\ \A k \in 1..Len(sel) :
                Occurrences(wrong_names, sel[k]) =
                    IF k < i THEN ExpectedCount(sel[k], prefix) ELSE 0
    /\ exc.kind = "Naming" =>
          /\ exc.data # <<>>
          /\ InSelectionOrder(exc.data)
          /\ \A k \in 1..Len(sel) :
                /\ Occurrences(exc.data, sel[k]) = ExpectedCount(sel[k], prefix)
                /\ InSeq(<<"name", k>>, reads)
    /\ NamingPassed =>
          \A k \in 1..Len(sel) : ExpectedCount(sel[k], prefix) = 0

C6_Witness ==
    /\ exc.kind = "Naming"
    /\ Len(sel) = 2
    /\ Occurrences(exc.data, sel[1]) = 2
    /\ Occurrences(exc.data, sel[2]) = 1
    /\ LeafName(sel[1]) # sel[1]

\* C7: the naming check uses the prefix given to the constructor: after the
\* loop an object whose leaf name starts with that prefix and has 3 or 4
\* tokens is not listed, and one whose first token differs is listed.
C7_ConfiguredPrefixUsed ==
    (pc = "naming" /\ i > Len(sel)) =>
        \A k \in 1..Len(sel) :
            /\ (FirstTokenIs(LeafName(sel[k]), arg_prefix)
                   /\ TokenCount(LeafName(sel[k])) \in {3, 4})
                  => ~InSeq(sel[k], wrong_names)
            /\ ~FirstTokenIs(LeafName(sel[k]), arg_prefix)
                  => InSeq(sel[k], wrong_names)

\* The check that raises each kind of error.
CheckOf(kind) ==
    CASE kind \in {"SceneNaming", "Naming"} -> "naming"
      [] kind \in {"Ngons", "Lamina"}       -> "topology"
      [] kind = "Transforms"                -> "transforms"
      [] kind = "History"                   -> "history"
      [] OTHER                              -> "uvs"

VerifyPassed ==
    /\ InSeq("verify", calls)
    /\ \/ pc \in {"begin_extract", "extract"}
       \/ InSeq("extract", calls)

\* C8: in Verify of a ModelPublisher the checks start in the order naming,
\* topology, transforms, history, UV; the check that raised is the last one
\* started; Verify has passed only when all of them ran and none raised.
C8_ChecksInOrder ==
    cls = "ModelPublisher" =>
        /\ IsPrefix(checks, CheckOrder)
        /\ (exc.type = "PublishError" /\ exc.kind \in VerifyKinds)
              => Last(checks) = CheckOf(exc.kind)
        /\ VerifyPassed => (checks = CheckOrder /\ exc.kind \notin VerifyKinds)

C8_Witness ==
    /\ cls = "ModelPublisher"
    /\ exc.kind = "History"
    /\ checks = SubSeq(CheckOrder, 1, 4)

\* Every component of v is within the tolerance of c.
Within(v, c) == \A j \in 1..3 : c - Tol <= v[j] /\ v[j] <= c + Tol

ReadOf(channel, k) == <<channel, k>>

\* What one iteration on object k, having read x, appends to the list and to
\* the queries.
ScanResult(k, x, ch, n) ==
    /\ bad_transforms' =
          IF ch = "none" THEN bad_transforms
          ELSE Append(bad_transforms, sel[k] \o <<" (", ch, ")">>)
    /\ reads' = reads \o SubSeq(<<ReadOf("translate", k), ReadOf("rotate", k),
                                    ReadOf("scale", k)>>, 1, n)
    /\ (x.r = <<>>) <=> (n < 2)
    /\ (x.s = <<>>) <=> (n < 3)

\* C9: each iteration of check_transforms reads the channels of the next
\* object in the order translate, rotate, scale up to the first one out of
\* tolerance, appends "{object} ({Channel})" for that channel and nothing
\* else, and goes on to the next object; after the last object the check
\* raises once with the whole list iff the list is not empty.
C9_TransformScan ==
    [][ pc = "transforms_loop" =>
          \/ exc'.kind = "getAttr"
          \/ /\ i <= Len(sel)
             /\ pc' = "transforms_loop"
             /\ i' = i + 1
             /\ xform'.obj = i
             /\ LET x == xform'
                IN  IF ~Within(x.t, 0) THEN ScanResult(i, x, "Translate", 1)
                    ELSE IF ~Within(x.r, 0) THEN ScanResult(i, x, "Rotate", 2)
                    ELSE IF ~Within(x.s, One) THEN ScanResult(i, x, "Scale", 3)
                    ELSE ScanResult(i, x, "none", 3)
          \/ /\ i > Len(sel)
             /\ bad_transforms # <<>>
             /\ pc' = "done"
             /\ exc' = PublishError("Transforms", bad_transforms)
             /\ checks' = checks
          \/ /\ i > Len(sel)
             /\ bad_transforms = <<>>
             /\ pc' = "history"
             /\ exc' = NoExc
      ]_vars

C9_Witness ==
    /\ exc.kind = "Transforms"
    /\ Len(sel) = 2
    /\ exc.data = << sel[1] \o <<" (", "Rotate", ")">>,
                     sel[2] \o <<" (", "Scale", ")">> >>
    /\ reads[Len(reads)] = <<"scale", 2>>

\* The last entry of the list is object k with this channel.
Flagged(k, channel) ==
    /\ bad_transforms # <<>>
    /\ Last(bad_transforms) = sel[k] \o <<" (", channel, ")">>

\* C10: the object just scanned is flagged (Translate) iff a translate
\* component is more than 0.001 from 0, (Rotate) iff a rotate component read
\* is, (Scale) iff a scale component read is more than 0.001 from 1.0;
\* translate [0,0,0.0010] is not flagged, [0,0,0.0011] is flagged
\* (Translate) and its rotate and scale are not read.
C10_InclusiveTolerance ==
    (pc = "transforms_loop" /\ xform.obj >= 1) =>
        LET k == xform.obj
        IN  /\ Flagged(k, "Translate") <=> ~Within(xform.t, 0)
            /\ xform.r # <<>> => (Flagged(k, "Rotate") <=> ~Within(xform.r, 0))
            /\ xform.s # <<>> => (Flagged(k, "Scale") <=> ~Within(xform.s, One))
            /\ xform.t = <<0, 0, 10>> => ~Flagged(k, "Translate")
            /\ xform.t = <<0, 0, 11>> =>
                  /\ Flagged(k, "Translate")
                  /\ xform.r = <<>>
                  /\ xform.s = <<>>

C10_Witness ==
    /\ pc = "transforms_loop"
    /\ xform.t = <<0, 0, 10>>
    /\ xform.r = <<10, 0, -10>>
    /\ xform.s = <<10010, 10000, 9990>>
    /\ bad_transforms = <<>>

\* The polyEvaluate queries of this run, oldest first.
UvReads == SelectSeq(reads, LAMBDA r : r[1] = "uv")

\* C11: check_uvs asks for the UV count of the objects in selection order,
\* one query each; the first object whose count is zero ends the check with
\* a validation failure that names that object and no other, so that no
\* later object is asked for; the check is passed exactly when every object
\* was asked and none answered zero.
C11_UvCheckStopsAtFirst ==
    /\ \A k \in 1..Len(UvReads) : UvReads[k][2] = k /\ k <= Len(sel)
    /\ \A k \in 1..(Len(UvReads) - 1) : UvReads[k][3] # 0
    /\ exc.kind = "UVs" <=> (UvReads # <<>> /\ Last(UvReads)[3] = 0)
    /\ exc.kind = "UVs" =>
          /\ pc = "done"
          /\ exc = PublishError("UVs", <<sel[Len(UvReads)]>>)
    /\ pc = "uvs_loop" => Len(UvReads) = i - 1
    /\ (cls = "ModelPublisher" /\ InSeq("extract", calls)) =>
          /\ Len(UvReads) = Len(sel)
          /\ \A k \in 1..Len(UvReads) : UvReads[k][3] # 0

\* The first of two objects has no UVs: the second is never asked.
C11_Witness ==
    /\ exc.kind = "UVs"
    /\ Len(sel) = 2
    /\ Len(UvReads) = 1
    /\ exc.data = <<sel[1]>>

\* C12: check_history flags an object exactly when the construction history
\* that listHistory returned for it holds at least one node: neither the
\* answer None nor an empty list gets the object flagged. Stated for the
\* object scanned last: it is the last entry of the flagged list if and only
\* if its history answer is non-empty.
C12_HistoryFlagsNonEmpty ==
    (pc = "history_loop" /\ i > 1) =>
        ( (bad_obj # <<>> /\ Last(bad_obj) = sel[i - 1])
          <=> (history # NoneVal /\ history # <<>>) )

\* The positions of "/" in path, and the n-th of them from the right.
Slashes(path) == {k \in 1..Len(path) : path[k] = "/"}

NthLastSlash(path, n) ==
    CHOOSE k \in Slashes(path) :
        Cardinality({m \in Slashes(path) : m >= k}) = n

\* The file name up to its first ".".
BeforeFirstDot(name) ==
    LET dots == {k \in 1..Len(name) : name[k] = "."}
    IN  IF dots = {} THEN name
        ELSE SubSeq(name, 1,
                    (CHOOSE k \in dots : \A m \in dots : k <= m) - 1)

\* <root>/assets/<sceneName>/modeling/ where <root>/ is the path up to its
\* n-th "/" from the right: n = 1 is the directory that holds the file,
\* n = 2 the directory above it, n = 3 the one two levels above it.
AssetDirAbove(path, n) ==
    SubSeq(path, 1, NthLastSlash(path, n))
        \o <<"a", "s", "s", "e", "t", "s", "/">>
        \o BeforeFirstDot(FileOf(path))
        \o <<"/", "m", "o", "d", "e", "l", "i", "n", "g", "/">>

\* Extract has computed the export base path of a scene that lies three
\* directories deep.
Extracted ==
    /\ cls = "ModelPublisher"
    /\ obj_path # <<>>
    /\ Cardinality(Slashes(maya.sn)) >= 4

PostOutcome ==
    LET tries == SelectSeq(reads, LAMBDA r : r[1] = "post")
    IN  IF tries = <<>> THEN "none" ELSE tries[1][3]

\* The sidecar of this run is on disk.
SidecarWritten ==
    \E f \in sidecars : f.path = DbPath(obj_path) /\ f.data.path = obj_path

\* C14: when the post of the notification fails, the failure stays inside
\* discord_notification: nothing was delivered, implement_assets goes on to
\* csv_publisher without an exception, the only exception the run can still
\* end with is the one of writing the sidecar file, and a run that ends
\* without one has written the sidecar and, in the window, shows Implement
\* as Success.
C14_DeliveryFailureIsCaught ==
    PostOutcome = "failed" =>
        /\ posts = <<>>
        /\ user = UserName
        /\ pc \in {"csv", "done"}
        /\ pc = "csv" => exc = NoExc
        /\ exc.kind \in {"none", "open"}
        /\ (pc = "done" /\ exc = NoExc) =>
              /\ SidecarWritten
              /\ entry = "run_publish" => Status("step_i") = "success"
              /\ propagated = FALSE

\* The post failed, the sidecar is written and Implement shows Success.
C14_Witness ==
    /\ PostOutcome = "failed"
    /\ pc = "done"
    /\ exc = NoExc
    /\ SidecarWritten
    /\ entry = "run_publish"
    /\ Status("step_i") = "success"

\* The part of str after its last "_".
LastToken(str) ==
    LET bars == {k \in 1..Len(str) : str[k] = "_"}
    IN  IF bars = {} THEN str
        ELSE SubSeq(str, (CHOOSE k \in bars : \A m \in bars : m <= k) + 1,
                    Len(str))

\* All four stages of a ModelPublisher run have returned.
PublishedRun ==
    /\ cls = "ModelPublisher"
    /\ pc = "done"
    /\ exc = NoExc
    /\ calls = StageOrder

\* C15: a run whose four stages succeed leaves exactly one record, in the
\* sidecar file named by the export base path followed by "_metadata.json";
\* the record has the seven fields id, date, name, version, path, user and
\* description, its name is the scene name (the scene file name without its
\* extension), its version the last "_"-token of the scene name and its path
\* the export base path.
C15_OneRecordPerPublish ==
    PublishedRun =>
        /\ Cardinality(sidecars) = 1
        /\ \A f \in sidecars :
              /\ f.path = obj_path \o <<"_metadata.json">>
              /\ DOMAIN f.data = {"id", "date", "name", "version", "path",
                                  "user", "description"}
              /\ f.data.name = StemOf(FileOf(maya.sn))
              /\ f.data.version = LastToken(StemOf(FileOf(maya.sn)))
              /\ f.data.path = obj_path
              /\ obj_path \in {x[1] : x \in exports}

\* The exceptions that are not validation failures, with the stage whose
\* call raises each.
SystemKinds ==
    {"TypeError", "getAttr", "IndexError", "makedirs", "export", "open"}

StageRaising(kind) ==
    CASE kind \in {"TypeError", "getAttr"}             -> 2
      [] kind \in {"IndexError", "makedirs", "export"} -> 3
      [] OTHER                                         -> 4

NgonReads == SelectSeq(reads, LAMBDA r : r[1] = "ngons")

LaminaReads == SelectSeq(reads, LAMBDA r : r[1] = "lamina")

\* While check_topology runs: an n-gon answer that is not empty ends the
\* check at once with that list and without any lamina query; otherwise the
\* meshes are queried in order and a mesh is flagged if and only if its
\* answer holds a face.
TopologyScan ==
    /\ Len(NgonReads) <= 1
    /\ \A k \in 1..Len(LaminaReads) : LaminaReads[k][2] = k
    /\ NgonReads # <<>> =>
          (NgonReads[1][3] \notin {NoneVal, <<>>} <=> exc.kind = "Ngons")
    /\ exc.kind = "Ngons" =>
          /\ exc = PublishError("Ngons", NgonReads[1][3])
          /\ LaminaReads = <<>>
          /\ pc = "done"
    /\ pc = "lamina" =>
          /\ Len(LaminaReads) = i - 1
          /\ i <= Len(meshes) + 1
          /\ \A k \in 1..Len(lamina_objs) : lamina_objs[k] \in 1..(i - 1)
          /\ i > 1 =>
                ( (lamina_objs # <<>> /\ Last(lamina_objs) = meshes[i - 1])
                  <=> lamina \notin {NoneVal, <<>>} )
    /\ exc.kind = "Lamina" => exc.data # <<>> /\ pc = "done"

\* Leaving the lamina loop: every mesh has been queried, and the check
\* fails, with the list of the flagged meshes, if and only if that list is
\* not empty.
TopologyEnd ==
    (pc = "lamina" /\ pc' # "lamina") =>
        /\ Len(LaminaReads) = Len(meshes)
        /\ IF lamina_objs # <<>>
           THEN exc' = PublishError("Lamina", lamina_objs) /\ pc' = "done"
           ELSE exc' = NoExc /\ pc' = "transforms"

\* C17: in check_topology a detected n-gon fails the check at once, listing
\* the n-gons, and lamina detection is not run on any mesh; without n-gons
\* every mesh is examined for lamina faces and the check fails once, after
\* the last mesh, with the list of all meshes that have lamina faces, if
\* and only if that list is non-empty.
C17_TopologyCheck == [](TopologyScan) /\ [][TopologyEnd]_vars

\* Two meshes were examined although the first already had lamina faces;
\* the error lists both.
C17_Witness ==
    /\ exc = PublishError("Lamina", <<1, 2>>)
    /\ Len(LaminaReads) = 2

\* C18: a run on an empty selection fails in Collect with the validation
\* failure "no selection" before the scene name is read: the scene is still
\* unset, no other stage was called, no validator started and no query was
\* made; in the window Collect shows Fail and the other three steps Idle.
C18_EmptySelectionFailsInCollect ==
    (sel = <<>> /\ calls # <<>>) =>
        /\ pc = "done"
        /\ exc = PublishError("NoSelection", <<>>)
        /\ scene = Unset
        /\ calls = <<"collect">>
        /\ checks = <<>>
        /\ reads = <<>>
        /\ dirs = {} /\ exports = {} /\ sidecars = {} /\ posts = <<>>
        /\ entry = "run_publish" =>
              /\ Status("step_c") = "fail"
              /\ Status("step_v") = "idle"
              /\ Status("step_e") = "idle"
              /\ Status("step_i") = "idle"

\* The window ran a publish with nothing selected.
C18_Witness ==
    /\ entry = "run_publish"
    /\ sel = <<>>
    /\ pc = "done"
    /\ exc.kind = "NoSelection"
    /\ Status("step_c") = "fail"

\* What the earlier stages left is still there after a later failure.
EarlierWorkKept ==
    /\ exc.kind = "export" =>
          /\ AssetDirAbove(maya.sn, 2) \in dirs
          /\ entry = "run_publish" =>
                Status("step_c") = "success" /\ Status("step_v") = "success"
    /\ (exc.kind = "open" /\ calls = StageOrder) =>
          /\ AssetDirAbove(maya.sn, 2) \in dirs
          /\ <<obj_path, fmt>> \in exports
          /\ entry = "run_publish" =>
                /\ Status("step_c") = "success"
                /\ Status("step_v") = "success"
                /\ Status("step_e") = "success"

\* No step of the run removes a directory or an export or takes Success
\* away from a step.
NothingUndone ==
    /\ dirs \subseteq dirs'
    /\ exports \subseteq exports'
    /\ \A step \in StepSet :
          indicator[step] = colors("success") =>
              indicator'[step] = colors("success")

\* C19: a failure in a later stage does not undo the earlier ones: when the
\* export step of Extract or the Implement stage fails, the asset directory
\* and an export already written are still there and the steps that were
\* completed still show Success.
C19_NoRollback == [](EarlierWorkKept) /\ [][NothingUndone]_vars

\* Writing the sidecar failed in the window: the export is there and the
\* first three steps show Success.
C19_Witness ==
    /\ entry = "run_publish"
    /\ exc.kind = "open"
    /\ <<obj_path, fmt>> \in exports
    /\ Status("step_e") = "success"

\* C20: within Implement the record is persisted before the notification:
\* whenever the notification of the run has been posted, the sidecar of the
\* run is on disk.
C20_SidecarBeforeNotification == posts # <<>> => SidecarWritten

\* The sidecar files at the path derived from the export base path.
SidecarsAt(files, base) ==
    {f \in files : f.path = base \o <<"_metadata.json">>}

\* The record is the one the present run built.
RecordOfThisRun(rec) ==
    /\ DOMAIN rec = {"id", "date", "name", "version", "path", "user",
                     "description"}
    /\ rec.date \in Dates
    /\ rec.id \in Ids
    /\ rec.name = scene_name
    /\ rec.version = version
    /\ rec.path = obj_path
    /\ rec.user = user
    /\ rec.description = <<>>

\* No path holds two files; after a successful run the file at the derived
\* path holds the record of that run; a run that failed before Implement
\* has the sidecars of the earlier publish as they were.
LatestRecordOnly ==
    /\ \A f, g \in sidecars : f.path = g.path => f = g
    /\ PublishedRun =>
          /\ Cardinality(SidecarsAt(sidecars, obj_path)) = 1
          /\ \A f \in SidecarsAt(sidecars, obj_path) :
                RecordOfThisRun(f.data)
    /\ (pc = "done" /\ exc # NoExc /\ ~InSeq("implement", calls)) =>
          /\ sidecars \in {w.sidecars : w \in PriorWorlds}
          /\ \A f \in sidecars : f.data.date = PriorDate

\* The step that writes the sidecar replaces the file at the derived path
\* and touches no other; no other step changes any sidecar.
SidecarOverwritten ==
    IF pc = "csv" /\ pc' = "done" /\ exc' = NoExc
    THEN /\ Cardinality(SidecarsAt(sidecars', obj_path)) = 1
         /\ sidecars' \ SidecarsAt(sidecars', obj_path)
               = sidecars \ SidecarsAt(sidecars, obj_path)
    ELSE sidecars' = sidecars

\* C21: the sidecar write is last-write-wins: after a successful run that
\* follows an earlier publish there is one sidecar at the derived path and
\* it holds exactly the record of the latest run, nothing of the earlier
\* record being kept beside it; sidecars at other paths are untouched, and
\* a run that fails before Implement leaves the existing sidecar unchanged.
C21_LastWriteWins == [](LatestRecordOnly) /\ [][SidecarOverwritten]_vars

\* The scene published before was published again: the one sidecar is the
\* new record, the earlier one is gone.
C21_Witness ==
    /\ PublishedRun
    /\ posts # <<>>
    /\ posts[1].asset = scene_name
    /\ Cardinality(sidecars) = 1
    /\ \A f \in sidecars : f.data.date # PriorDate /\ f.data.id # PriorId

====
